---------------------------- MODULE Spec2Model ----------------------------
(***************************************************************************)
(* A model of the shift scheduler of src/app.py: ScheduleSolver builds a   *)
(* CP-SAT model over the boolean variables x[m, s, d] (member m works      *)
(* shift s on day d), hands it to the solver and turns the valuation into  *)
(* a roster, or into the round-robin fallback roster.                      *)
(*                                                                         *)
(* The CP model is kept as data: a set of linear constraints, each the sum *)
(* of a set of variables compared with a constant.  The solver is the      *)
(* abstract capability the code consumes: it may return any valuation that *)
(* satisfies every constraint (FEASIBLE), one that also maximises the      *)
(* objective (OPTIMAL), or INFEASIBLE when there is none.                  *)
(*                                                                         *)
(* Scaling: in Spec a month is cut down to days_in_month in 1..MaxDays     *)
(* days, and a date string of the request's month is modelled by its       *)
(* day-of-month number.  The computation of the day count from month and   *)
(* year is modelled on its own, with full months, in SpecCalendar.         *)
(***************************************************************************)
EXTENDS Integers, Sequences, FiniteSets, TLC

VARIABLES
    members,            \* team_data['members']: the list object, mutated by the solve
    shifts,             \* team_data['shifts']
    availability,       \* team_data['availability']
    basic_constraints,  \* team_data['basic_constraints'] (a dict: absent keys are absent)
    custom_constraints, \* team_data['custom_constraints']
    availability_type,  \* the Python type of team_data['availability']
    month,              \* team_data['month']
    year,               \* team_data['year']
    days_in_month,      \* the day count computed from month and year
    pc,                 \* position of the running solve_schedule call
    calls,              \* solve_schedule calls started on this request object
    model,              \* self.model: the constraints added to the CpModel
    status,             \* self.solver: the status of the last Solve
    valuation,          \* self.solver: the variables valued 1 by the last Solve
    result,             \* the value returned by the last finished call
    determinate,        \* history: the solver had no choice in what the last call returned
    previous,           \* history: the result of the call before, when it was determinate
    shared,             \* the fields of the global ScheduleSolver instance (concurrent runs)
    objects,            \* every CpModel / CpSolver object created (concurrent runs)
    thread,             \* the position and locals of each request thread (concurrent runs)
    compared            \* the two objective values under comparison (objective weights)

vars == <<members, shifts, availability, basic_constraints, custom_constraints,
          days_in_month, pc, calls, model, status, valuation, result, determinate, previous,
          shared, objects, thread, availability_type, month, year, compared>>

request_vars == <<shifts, availability, availability_type, basic_constraints,
                  custom_constraints, month, year, days_in_month>>
conc_vars == <<shared, objects, thread>>

-----------------------------------------------------------------------------
(* Bounds of the model. *)

MaxMembers == 2
MaxShifts == 2
MaxDays == 3
MaxVars == 8
MaxCalls == 2
MaxSettings == 2
MaxRules == 1
MaxWorkers == 1
MaxPerMonth == 1
MaxConsecutive == 1
MaxRequired == 2
MaxWallTime == 1
FirstYear == 2024
LastYear == 2032

(* Constants of the program. *)

DefaultMaxConsecutiveDays == 30
DefaultMaxDaysPerMonth == 20
DefaultWorkersPerShift == 2
FillWeight == 1000
PriorityWeight == 100
UnassignedWeight == 10
WorkloadWeight == 50
ShiftTypeWeight == 3
LargeGapFactor == 100
SmallGapFactor == 2
FallbackDays == 7

-----------------------------------------------------------------------------
(* Python helpers. *)

\* range(n): 0, 1, ..., n-1; empty when n <= 0
Range(n) == 0 .. (n - 1)

\* dict.get(key, default)
Get(dict, key, default) == IF key \in DOMAIN dict THEN dict[key] ELSE default

Min(S) == CHOOSE a \in S : \A b \in S : a <= b
Max(S) == CHOOSE a \in S : \A b \in S : b <= a
Abs(n) == IF n < 0 THEN -n ELSE n

\* f"{year}-{month:02d}-{d+1:02d}" within the request's month: the day-of-month number
DateStr(d) == d + 1

\* the value None (a JSON null of the request)
None == [py_none |-> TRUE]

dummy_worker == [id |-> "unassigned", name |-> "Unassigned"]

\* the keys of the dict x: one boolean variable per (m, s, d)
Keys(mem, shf, days) == Range(Len(mem)) \X Range(Len(shf)) \X Range(days)

\* a linear constraint: sum of the variables of `sum`, each with coefficient 1, op rhs
Con(sum, op, rhs) == [sum |-> sum, op |-> op, rhs |-> rhs]


-----------------------------------------------------------------------------
(* solve_schedule, lines 27-34: the merged constraints, with the defaults. *)

merged_constraints(basic, custom) ==
    [max_consecutive_days |-> Get(basic, "max_consecutive_days", DefaultMaxConsecutiveDays),
     max_days_per_month   |-> Get(basic, "max_days_per_month", DefaultMaxDaysPerMonth),
     workers_per_shift    |-> Get(basic, "workers_per_shift", DefaultWorkersPerShift),
     custom_constraints   |-> custom]

-----------------------------------------------------------------------------
(* 1. Availability. *)

\* the types of the availability value: a list of entries or, not a list, null, a
\* non-empty map or a non-empty string
availability_types == {"list", "NoneType", "dict", "str"}

\* lines 46-48: len(availability) raises on None and availability[0] on a non-empty map
request_logging_raises(type) == type \in {"NoneType", "dict"}

\* the entries the builder and the priority lookup get to see: the builder returns
\* at once when the value is not a list (lines 143-145), and the lookup in a string
\* raises a TypeError that _is_priority_assignment catches (lines 680-681)
entries_seen(type, avail) == IF type = "list" THEN avail ELSE <<>>

NoEntry == "<no entry>"

\* next(a for a in availability if a matches (member_id, shift_id, date_str)): the
\* status of the FIRST matching entry, NoEntry when there is none
availability_entry(avail, member_id, shift_id, date_str) ==
    LET hits == {i \in DOMAIN avail : /\ avail[i].user_id = member_id
                                      /\ avail[i].shift_id = shift_id
                                      /\ avail[i].date = date_str}
    IN  IF hits = {} THEN NoEntry ELSE avail[Min(hits)].status

\* a variant that looks the entry up under the 0-based day index instead of the date
add_availability_constraints_day_index(mem, shf, avail, days) ==
    { Con({k}, "eq", 0) :
        k \in { q \in Keys(mem, shf, days) :
                  /\ mem[q[1] + 1].id # "unassigned"
                  /\ availability_entry(avail, mem[q[1] + 1].id, shf[q[2] + 1].id,
                                        q[3]) = "unavailable" } }

add_availability_constraints(mem, shf, avail, days) ==
    { Con({k}, "eq", 0) :
        k \in { q \in Keys(mem, shf, days) :
                  /\ mem[q[1] + 1].id # "unassigned"
                  /\ availability_entry(avail, mem[q[1] + 1].id, shf[q[2] + 1].id,
                                        DateStr(q[3])) = "unavailable" } }

(* 2. Workers per shift: the merged dict never has 'parsed_custom_constraints', *)
(* so the bound is always the merged workers_per_shift value.                   *)

\* a variant that leaves the last member of the list, the placeholder, out of the sum
add_workers_per_shift_constraint_real_only(mem, shf, days, constraints) ==
    LET workers_per_shift == constraints.workers_per_shift
    IN  { Con({<<m, s, d>> : m \in Range(Len(mem) - 1)}, "le", workers_per_shift) :
            <<s, d>> \in Range(Len(shf)) \X Range(days) }

add_workers_per_shift_constraint(mem, shf, days, constraints) ==
    LET workers_per_shift == constraints.workers_per_shift
    IN  { Con({<<m, s, d>> : m \in Range(Len(mem))}, "le", workers_per_shift) :
            <<s, d>> \in Range(Len(shf)) \X Range(days) }

(* 3. Max shifts per month, for every member of the list. *)

\* a variant that bounds the assignments of a member per shift instead of in all
add_max_shifts_per_month_constraint_per_shift(mem, shf, days, constraints) ==
    LET max_shifts == constraints.max_days_per_month
    IN  { Con({ms[1]} \X {ms[2]} \X Range(days), "le", max_shifts) :
            ms \in Range(Len(mem)) \X Range(Len(shf)) }

add_max_shifts_per_month_constraint(mem, shf, days, constraints) ==
    LET max_shifts == constraints.max_days_per_month
    IN  { Con({m} \X Range(Len(shf)) \X Range(days), "le", max_shifts) :
            m \in Range(Len(mem)) }

(* 4. Max consecutive shifts: one window of max_consecutive + 1 days per start day. *)

\* a variant whose loop over the start days stops one window early
add_max_consecutive_shifts_constraint_short(mem, shf, days, constraints) ==
    LET max_consecutive == constraints.max_consecutive_days
    IN  { Con({<<m, s, d + i>> : <<s, i>> \in Range(Len(shf)) \X Range(max_consecutive + 1)},
              "le", max_consecutive) :
            <<m, d>> \in Range(Len(mem)) \X Range(days - max_consecutive - 1) }

add_max_consecutive_shifts_constraint(mem, shf, days, constraints) ==
    LET max_consecutive == constraints.max_consecutive_days
    IN  { Con({<<m, s, d + i>> : <<s, i>> \in Range(Len(shf)) \X Range(max_consecutive + 1)},
              "le", max_consecutive) :
            <<m, d>> \in Range(Len(mem)) \X Range(days - max_consecutive) }

-----------------------------------------------------------------------------
(* 5. Custom constraints. *)

\* the index a "for i, shift in enumerate(shifts)" loop ends with: the last shift
\* whose id is shift_id, -1 (None) when there is none
shift_index(shf, shift_id) ==
    LET hits == {i \in Range(Len(shf)) : shf[i + 1].id = shift_id}
    IN  IF hits = {} THEN -1 ELSE Max(hits)

\* a variant that gives up the whole rule at the first pair with an unknown shift id
add_shift_transition_restriction_all_or_nothing(mem, shf, days, parameters) ==
    LET forbidden_transitions == Get(parameters, "forbidden_transitions", <<>>)
        pair(t) == <<shift_index(shf, Get(forbidden_transitions[t], "from_shift_id", "")),
                     shift_index(shf, Get(forbidden_transitions[t], "to_shift_id", ""))>>
        found == {t \in DOMAIN forbidden_transitions :
                    \A u \in 1 .. t : pair(u)[1] # -1 /\ pair(u)[2] # -1}
    IN  { Con({<<mt[1], pair(mt[2])[1], d>>, <<mt[1], pair(mt[2])[2], d + 1>>}, "le", 1) :
            <<mt, d>> \in (Range(Len(mem)) \X found) \X Range(days - 1) }

\* a variant that pairs the two shifts on the same day instead of on consecutive days
add_shift_transition_restriction_same_day(mem, shf, days, parameters) ==
    LET forbidden_transitions == Get(parameters, "forbidden_transitions", <<>>)
        pair(t) == <<shift_index(shf, Get(forbidden_transitions[t], "from_shift_id", "")),
                     shift_index(shf, Get(forbidden_transitions[t], "to_shift_id", ""))>>
        found == {t \in DOMAIN forbidden_transitions : pair(t)[1] # -1 /\ pair(t)[2] # -1}
    IN  { Con({<<mt[1], pair(mt[2])[1], d>>, <<mt[1], pair(mt[2])[2], d>>}, "le", 1) :
            <<mt, d>> \in (Range(Len(mem)) \X found) \X Range(days - 1) }

add_shift_transition_restriction(mem, shf, days, parameters) ==
    LET forbidden_transitions == Get(parameters, "forbidden_transitions", <<>>)
        pair(t) == <<shift_index(shf, Get(forbidden_transitions[t], "from_shift_id", "")),
                     shift_index(shf, Get(forbidden_transitions[t], "to_shift_id", ""))>>
        found == {t \in DOMAIN forbidden_transitions : pair(t)[1] # -1 /\ pair(t)[2] # -1}
    IN  { Con({<<mt[1], pair(mt[2])[1], d>>, <<mt[1], pair(mt[2])[2], d + 1>>}, "le", 1) :
            <<mt, d>> \in (Range(Len(mem)) \X found) \X Range(days - 1) }

add_ai_workers_per_shift_constraint(mem, shf, days, parameters) ==
    LET workers_required == Get(parameters, "workers_required", 1)
        shift_names == Get(parameters, "shift_names", {})
        target_shift_indices == {i \in Range(Len(shf)) : shf[i + 1].name \in shift_names}
    IN  { Con({<<m, s, d>> : m \in Range(Len(mem))}, "eq", workers_required) :
            <<s, d>> \in target_shift_indices \X Range(days) }

\* the two soft rule types only log (lines 561-589); first a variant of the
\* preference builder that keeps every member off the avoided shifts
add_ai_shift_preference_constraint_hard(mem, shf, days, parameters) ==
    { Con({k}, "eq", 0) :
        k \in { q \in Keys(mem, shf, days) :
                  shf[q[2] + 1].name \in Get(parameters, "avoided_shifts", {}) } }

add_ai_shift_preference_constraint(mem, shf, days, parameters) == {}

add_ai_shift_rotation_constraint(mem, shf, days, parameters) == {}

\* the characters of the words the requests use, and str.lower on them
characters(word) ==
    CASE word = "Day"     -> <<"D", "a", "y">>
      [] word = "Night"   -> <<"N", "i", "g", "h", "t">>
      [] word = "Evening" -> <<"E", "v", "e", "n", "i", "n", "g">>
      [] word = "night"   -> <<"n", "i", "g", "h", "t">>
      [] word = "NIGHT"   -> <<"N", "I", "G", "H", "T">>
      [] word = "ay"      -> <<"a", "y">>
      [] word = "late"    -> <<"l", "a", "t", "e">>

lower_character(c) ==
    CASE c = "D" -> "d" [] c = "E" -> "e" [] c = "G" -> "g" [] c = "H" -> "h"
      [] c = "I" -> "i" [] c = "N" -> "n" [] c = "T" -> "t" [] OTHER -> c

lower(word) == [i \in DOMAIN characters(word) |-> lower_character(characters(word)[i])]

\* the test "a in b" on two strings
is_substring(a, b) == \E i \in 0 .. (Len(b) - Len(a)) : SubSeq(b, i + 1, i + Len(a)) = a

\* the target shifts of a consecutive_shift_restriction rule (lines 440-463)
target_shifts(shf, applies_to_shifts, target_names, target_keywords) ==
    { i \in Range(Len(shf)) :
        IF shf[i + 1].id \in applies_to_shifts THEN TRUE
        ELSE IF shf[i + 1].name \in target_names THEN TRUE
        ELSE IF applies_to_shifts = {} /\ target_names = {}
             THEN \E keyword \in target_keywords :
                     is_substring(lower(keyword), lower(shf[i + 1].name))
        ELSE FALSE }

\* a variant that also falls back to the keywords when the ids and names match nothing
add_ai_consecutive_shift_restriction_any_strategy(mem, shf, days, parameters) ==
    LET max_consecutive == Get(parameters, "max_consecutive", 0)
        shift_identifiers == Get(parameters, "shift_identifiers", <<>>)
        by_id_or_name == target_shifts(shf, Get(parameters, "applies_to_shifts", {}),
                                       Get(shift_identifiers, "names", {}), {})
        target_shift_indices ==
            IF by_id_or_name # {} THEN by_id_or_name
            ELSE target_shifts(shf, {}, {}, Get(shift_identifiers, "keywords", {}))
    IN  { Con({<<m, s, d + i>> : <<s, i>> \in target_shift_indices \X Range(max_consecutive + 1)},
              "le", max_consecutive) :
            <<m, d>> \in (IF target_shift_indices = {} THEN {}
                          ELSE Range(Len(mem)) \X Range(days - max_consecutive)) }

add_ai_consecutive_shift_restriction(mem, shf, days, parameters) ==
    LET max_consecutive == Get(parameters, "max_consecutive", 0)
        shift_identifiers == Get(parameters, "shift_identifiers", <<>>)
        target_shift_indices ==
            target_shifts(shf, Get(parameters, "applies_to_shifts", {}),
                          Get(shift_identifiers, "names", {}),
                          Get(shift_identifiers, "keywords", {}))
    IN  { Con({<<m, s, d + i>> : <<s, i>> \in target_shift_indices \X Range(max_consecutive + 1)},
              "le", max_consecutive) :
            <<m, d>> \in (IF target_shift_indices = {} THEN {}
                          ELSE Range(Len(mem)) \X Range(days - max_consecutive)) }

\* lines 292-294: ai_translation.get(...) raises AttributeError when the rule's
\* ai_translation is None; this is outside the try of lines 310-331
rule_raises(constraint) ==
    "ai_translation" \in DOMAIN constraint /\ constraint.ai_translation = None

\* lines 288-302: the type and the parameters of a rule, in either format
rule_type(constraint) ==
    LET top == Get(constraint, "constraint_type", "")
    IN  IF "ai_translation" \in DOMAIN constraint /\ top = ""
        THEN Get(constraint.ai_translation, "constraint_type", "")
        ELSE top

rule_parameters(constraint) ==
    IF "ai_translation" \in DOMAIN constraint
    THEN Get(constraint.ai_translation, "parameters", <<>>)
    ELSE Get(constraint, "parameters", <<>>)

\* the rule types whose builder is called by the dispatch of lines 311-320
builder_types ==
    {"consecutive_shift_restriction", "workers_per_shift", "shift_preference",
     "shift_rotation", "shift_transition_restriction"}

\* the builder's first parameters.get(...) raises AttributeError when the rule's
\* parameters are None; the except of lines 329-331 catches it and the loop goes on
builder_raises(constraint_type, parameters) ==
    constraint_type \in builder_types /\ parameters = None

\* the constraints one entry of custom_constraints adds
rule_constraints(mem, shf, days, constraint) ==
    LET constraint_type == rule_type(constraint)
        parameters == rule_parameters(constraint)
    IN  IF Get(constraint, "status", "") # "translated" THEN {}
        ELSE IF builder_raises(constraint_type, parameters) THEN {}
        ELSE IF constraint_type = "consecutive_shift_restriction"
             THEN add_ai_consecutive_shift_restriction(mem, shf, days, parameters)
        ELSE IF constraint_type = "workers_per_shift"
             THEN add_ai_workers_per_shift_constraint(mem, shf, days, parameters)
        ELSE IF constraint_type = "shift_preference"
             THEN add_ai_shift_preference_constraint(mem, shf, days, parameters)
        ELSE IF constraint_type = "shift_rotation"
             THEN add_ai_shift_rotation_constraint(mem, shf, days, parameters)
        ELSE IF constraint_type = "shift_transition_restriction"
             THEN add_shift_transition_restriction(mem, shf, days, parameters)
        ELSE {}

\* the loop of line 282 raises at the first rule whose ai_translation is None
custom_raises(custom) == \E i \in DOMAIN custom : rule_raises(custom[i])

\* the rules the loop gets through: all of them, or those before the raising one
rules_processed(custom) ==
    IF custom_raises(custom)
    THEN SubSeq(custom, 1, Min({i \in DOMAIN custom : rule_raises(custom[i])}) - 1)
    ELSE custom

process_custom_constraints(mem, shf, days, custom) ==
    UNION { rule_constraints(mem, shf, days, custom[i]) : i \in DOMAIN rules_processed(custom) }

add_custom_constraints(mem, shf, days, constraints) ==
    process_custom_constraints(mem, shf, days, constraints.custom_constraints)

\* every constraint solve_schedule adds to self.model (lines 71-92)
build_model(mem, shf, avail, days, constraints) ==
    add_availability_constraints(mem, shf, avail, days)
      \cup add_workers_per_shift_constraint(mem, shf, days, constraints)
      \cup add_max_shifts_per_month_constraint(mem, shf, days, constraints)
      \cup add_max_consecutive_shifts_constraint(mem, shf, days, constraints)
      \cup add_custom_constraints(mem, shf, days, constraints)

-----------------------------------------------------------------------------
(* 6. The objective. *)

\* the assignments valuation v gives member index m
total_of(v, m) == Cardinality({k \in v : k[1] = m})

is_priority_assignment(m, s, d, avail, mem, shf) ==
    availability_entry(avail, mem[m + 1].id, shf[s + 1].id, DateStr(d)) = "priority"

\* the contribution of one pair of member totals (lines 706-716)
pair_penalty(diff) ==
    IF Abs(diff) > 1
    THEN (Abs(diff) - 1) * (Abs(diff) - 1) * LargeGapFactor
    ELSE Abs(diff) * SmallGapFactor

RECURSIVE row_penalty(_, _, _)
row_penalty(member_totals, i, j) ==
    IF j > Len(member_totals) THEN 0
    ELSE pair_penalty(member_totals[i] - member_totals[j])
           + row_penalty(member_totals, i, j + 1)

RECURSIVE all_pairs_penalty(_, _)
all_pairs_penalty(member_totals, i) ==
    IF i > Len(member_totals) THEN 0
    ELSE row_penalty(member_totals, i, i + 1) + all_pairs_penalty(member_totals, i + 1)

\* member_totals holds linear expressions over the variables, not numbers: the
\* abs(diff) of line 709 is applied to an expression whenever two totals exist and
\* the members have variables.  OR-Tools either raises NotImplementedError there,
\* which ends solve_schedule in its except branch, or a TypeError, which lines
\* 721-723 catch.
abs_on_expression(mem, shf) == Len(mem) - 1 >= 2 /\ Len(shf) >= 1

\* the value the term has when the call goes on: the pair penalties of plain numbers
\* (no variables, every total is the number 0), or 0 after the caught TypeError
calculate_workload_variance(v, mem, shf) ==
    IF Len(mem) <= 1 THEN 0
    ELSE LET member_totals == [i \in 1 .. (Len(mem) - 1) |-> total_of(v, i - 1)]
         IN  IF Len(member_totals) <= 1 THEN 0
             ELSE IF abs_on_expression(mem, shf) THEN 0
             ELSE all_pairs_penalty(member_totals, 1)

\* the keywords of lines 737-741 that occur in the lower-cased shift name
keywords_in(shift_name) ==
    CASE shift_name = "Day"     -> {"day"}
      [] shift_name = "Night"   -> {"night"}
      [] shift_name = "Evening" -> {"evening"}
      [] OTHER                  -> {}

shift_type_of(shift_name) ==
    IF keywords_in(shift_name) \cap {"morning", "day", "am"} # {} THEN "morning"
    ELSE IF keywords_in(shift_name) \cap {"afternoon", "pm"} # {} THEN "afternoon"
    ELSE IF keywords_in(shift_name) \cap {"night", "evening", "overnight"} # {} THEN "night"
    ELSE shift_name

RECURSIVE sum_over(_, _)
sum_over(f, S) ==
    IF S = {} THEN 0
    ELSE LET a == CHOOSE b \in S : TRUE IN f[a] + sum_over(f, S \ {a})

calculate_shift_type_variance(v, mem, shf) ==
    IF Len(mem) <= 1 \/ Len(shf) <= 1 THEN 0
    ELSE LET shift_types == {shift_type_of(shf[s + 1].name) : s \in Range(Len(shf))}
             shift_type_total ==
                 [ty \in shift_types |->
                    Cardinality({k \in v : /\ k[1] \in Range(Len(mem) - 1)
                                           /\ shift_type_of(shf[k[2] + 1].name) = ty})]
         IN  sum_over(shift_type_total, shift_types)

\* the maximised expression (lines 648-654) as a function of the values of its terms
weighted_objective(total_assignments, priority_bonus, unassigned_penalty, workload_variance, shift_type_variance) ==
    total_assignments * FillWeight
      + priority_bonus * PriorityWeight
      - unassigned_penalty * UnassignedWeight
      - workload_variance * WorkloadWeight
      - shift_type_variance * ShiftTypeWeight

\* a variant that charges the penalty for every entry with the placeholder's id
objective_every_placeholder(v, mem, shf, avail, dummy_index) ==
    LET total_assignments == Cardinality(v)
        unassigned_penalty == Cardinality({k \in v : mem[k[1] + 1].id = "unassigned"})
        priority_bonus ==
            Cardinality({k \in v : /\ k[1] \in Range(Len(mem) - 1)
                                   /\ is_priority_assignment(k[1], k[2], k[3], avail, mem, shf)})
    IN  weighted_objective(total_assignments, priority_bonus, unassigned_penalty,
                           calculate_workload_variance(v, mem, shf),
                           calculate_shift_type_variance(v, mem, shf))

\* the value of the maximised expression under valuation v
objective(v, mem, shf, avail, dummy_index) ==
    LET total_assignments == Cardinality(v)
        unassigned_penalty == Cardinality({k \in v : k[1] = dummy_index})
        priority_bonus ==
            Cardinality({k \in v : /\ k[1] \in Range(Len(mem) - 1)
                                   /\ is_priority_assignment(k[1], k[2], k[3], avail, mem, shf)})
    IN  weighted_objective(total_assignments, priority_bonus, unassigned_penalty,
                           calculate_workload_variance(v, mem, shf),
                           calculate_shift_type_variance(v, mem, shf))

-----------------------------------------------------------------------------
(* The solver: CpSolver.Solve on the model. *)

satisfies(v, c) ==
    IF c.op = "eq" THEN Cardinality(c.sum \cap v) = c.rhs
                   ELSE Cardinality(c.sum \cap v) <= c.rhs

feasible_valuations(mdl, keys) == {v \in SUBSET keys : \A c \in mdl : satisfies(v, c)}

optimal_valuations(feas, mem, shf, avail) ==
    LET value == [v \in feas |-> objective(v, mem, shf, avail, Len(mem) - 1)]
        best == Max({value[v] : v \in feas})
    IN  {v \in feas : value[v] = best}

-----------------------------------------------------------------------------
(* Extraction and fallback. *)

\* the keys in the order of the loops "for m ... for s ... for d"
keys_in_order(mem, shf, days) ==
    [i \in 1 .. (Len(mem) * Len(shf) * days) |->
        <<(i - 1) \div (Len(shf) * days), ((i - 1) \div days) % Len(shf), (i - 1) % days>>]

assignment(mem, shf, m, s, d) ==
    [user_id |-> mem[m + 1].id, shift_id |-> shf[s + 1].id, date |-> DateStr(d)]

\* a variant that also emits the assignments of the placeholder
extract_assignments_all(v, mem, shf, days) ==
    LET chosen == SelectSeq(keys_in_order(mem, shf, days), LAMBDA k : k \in v)
    IN  [i \in 1 .. Len(chosen) |-> assignment(mem, shf, chosen[i][1], chosen[i][2], chosen[i][3])]

extract_assignments(v, mem, shf, days) ==
    LET chosen == SelectSeq(keys_in_order(mem, shf, days),
                            LAMBDA k : k \in v /\ mem[k[1] + 1].id # "unassigned")
    IN  [i \in 1 .. Len(chosen) |-> assignment(mem, shf, chosen[i][1], chosen[i][2], chosen[i][3])]

extract_solution(v, st, wall, mem, shf, days) ==
    [assignments   |-> extract_assignments(v, mem, shf, days),
     solver_status |-> IF st = "OPTIMAL" THEN "OPTIMAL" ELSE "FEASIBLE",
     solve_time    |-> wall]

\* the loop of lines 782-792 from its k-th (day, shift) pair on, member_index being
\* the value of the loop's counter there
RECURSIVE fallback_from(_, _, _, _, _)
fallback_from(k, member_index, mem, shf, days) ==
    IF k >= Min({FallbackDays, days}) * Len(shf) THEN <<>>
    ELSE IF member_index < Len(mem) - 1
         THEN <<assignment(mem, shf, member_index, k % Len(shf), k \div Len(shf))>>
                \o fallback_from(k + 1, (member_index + 1) % (Len(mem) - 1), mem, shf, days)
         ELSE fallback_from(k + 1, member_index, mem, shf, days)

\* a variant that goes on through every day of the month
solve_with_fallback_whole_month(mem, shf, days) ==
    [assignments   |-> [k \in 1 .. (IF Len(mem) <= 1 THEN 0 ELSE days * Len(shf)) |->
                          assignment(mem, shf, (k - 1) % Max({Len(mem) - 1, 1}),
                                     (k - 1) % Len(shf), (k - 1) \div Len(shf))],
     solver_status |-> "FALLBACK",
     solve_time    |-> 0]

\* a variant that leaves the last two members of the list out of the rotation
solve_with_fallback_one_less(mem, shf, days) ==
    [assignments   |-> fallback_from(0, 0, SubSeq(mem, 1, Len(mem) - 1), shf, days),
     solver_status |-> "FALLBACK",
     solve_time    |-> 0]

solve_with_fallback(mem, shf, days) ==
    [assignments   |-> fallback_from(0, 0, mem, shf, days),
     solver_status |-> "FALLBACK",
     solve_time    |-> 0]

\* lines 130-134: the result for a solver status other than OPTIMAL and FEASIBLE;
\* first a variant that returns an empty roster along with the error
no_solution_with_roster(status_name) ==
    [error |-> <<"No feasible solution found. Solver status: ", status_name>>,
     assignments |-> <<>>]

no_solution(status_name) ==
    [error |-> <<"No feasible solution found. Solver status: ", status_name>>]

\* lines 136-138: the result when an exception reaches the except branch
solver_error(exception) == [error |-> <<"Solver error: ", exception>>]

\* lines 120-129: what solve_schedule returns for a valuation the solver reports
returned(v, st, wall, mem, shf, days) ==
    LET res == extract_solution(v, st, wall, mem, shf, days)
    IN  IF Len(res.assignments) = 0 THEN solve_with_fallback(mem, shf, days) ELSE res

-----------------------------------------------------------------------------
(* The requests the model draws from. *)

member_ids == <<"m1", "m2", "m3", "m4">>
member_names == <<"Ann", "Bob", "Cy", "Dee">>
shift_catalogue == <<[id |-> "s1", name |-> "Day"], [id |-> "s2", name |-> "Night"],
                     [id |-> "s3", name |-> "Evening"]>>

members_of(n) == [i \in 1 .. n |-> [id |-> member_ids[i], name |-> member_names[i]]]
shifts_of(n) == [i \in 1 .. n |-> shift_catalogue[i]]

SeqsUpTo(S, n) == UNION {[1 .. k -> S] : k \in 0 .. n}

availability_entries(mem, shf, days) ==
    [user_id : {mem[i].id : i \in DOMAIN mem}, shift_id : {shf[i].id : i \in DOMAIN shf},
     date : 1 .. days, status : {"unavailable", "priority"}]

basic_fields == {"workers_per_shift", "max_days_per_month", "max_consecutive_days"}

basic_values(field) ==
    CASE field = "workers_per_shift"    -> 0 .. MaxWorkers
      [] field = "max_days_per_month"   -> 0 .. MaxPerMonth
      [] field = "max_consecutive_days" -> 0 .. MaxConsecutive

basic_choices ==
    UNION { {b \in [D -> 0 .. Max({MaxWorkers, MaxPerMonth, MaxConsecutive})] :
                \A f \in D : b[f] \in basic_values(f)} : D \in SUBSET basic_fields }

rule_statuses == {"translated", "pending"}

\* forbidden pairs over the request's shift ids, and one pair naming an unknown shift
transition_rules(shf) ==
    LET ids == {shf[i].id : i \in DOMAIN shf}
        pairs == (ids \X ids) \cup {<<"s?", a>> : a \in {shf[i].id : i \in DOMAIN shf \cap {1}}}
    IN  { [constraint_type |-> "shift_transition_restriction", status |-> st,
           parameters |-> [forbidden_transitions |->
                             <<[from_shift_id |-> p[1], to_shift_id |-> p[2]]>>]] :
            <<p, st>> \in pairs \X rule_statuses }

workers_rules(shf) ==
    LET names == (SUBSET {shf[i].name : i \in DOMAIN shf} \ {{}}) \cup {{"Swing"}}
    IN  { [constraint_type |-> "workers_per_shift", status |-> st,
           parameters |-> [workers_required |-> r, shift_names |-> ns]] :
            <<r, ns, st>> \in (1 .. MaxRequired) \X names \X rule_statuses }

\* active rules of the soft types and of a type the dispatch does not know
soft_rules ==
    { [constraint_type |-> "shift_preference", status |-> "translated",
       parameters |-> [preferred_shifts |-> {"Day"}, avoided_shifts |-> {"Night"}]],
      [constraint_type |-> "shift_rotation", status |-> "translated",
       parameters |-> [rotation_type |-> "weekend", max_variance |-> 2]],
      [constraint_type |-> "workload_distribution", status |-> "translated",
       parameters |-> <<>>],
      [constraint_type |-> "team_lunch", status |-> "translated", parameters |-> <<>>] }

\* a rule in the old format, type and parameters inside ai_translation: one worker on
\* the first shift of the request
old_format_rules(shf) ==
    { [status |-> "translated",
       ai_translation |-> [constraint_type |-> "workers_per_shift",
                           parameters |-> [workers_required |-> 1,
                                           shift_names |-> {shf[i].name}]]] :
        i \in DOMAIN shf \cap {1} }

\* rules whose ai_translation field is null
null_translation_rules ==
    { [constraint_type |-> "shift_preference", status |-> st, ai_translation |-> None] :
        st \in rule_statuses }

rule_choices(shf) ==
    transition_rules(shf) \cup workers_rules(shf) \cup soft_rules
      \cup old_format_rules(shf) \cup null_translation_rules

-----------------------------------------------------------------------------
(* The state machine: solve_schedule calls on one request object. *)

no_threads == <<>>

no_comparison == <<>>

Init ==
    /\ \E nm \in 0 .. MaxMembers, ns \in 0 .. MaxShifts, nd \in 1 .. MaxDays :
         /\ (nm + 1) * ns * nd <= MaxVars
         /\ members = members_of(nm)
         /\ shifts = shifts_of(ns)
         /\ days_in_month = nd
         /\ availability \in SeqsUpTo(availability_entries(members, shifts, nd), MaxSettings)
         /\ availability_type \in availability_types
         /\ availability_type # "list" => availability = <<>>
         /\ basic_constraints \in basic_choices
         /\ custom_constraints \in SeqsUpTo(rule_choices(shifts), MaxRules)
         /\ Len(availability) + (IF availability_type = "list" THEN 0 ELSE 1)
              + Cardinality(DOMAIN basic_constraints) + Len(custom_constraints) <= MaxSettings
    /\ month = 1
    /\ year = FirstYear
    /\ compared = no_comparison
    /\ pc = "idle"
    /\ calls = 0
    /\ model = {}
    /\ status = "NONE"
    /\ valuation = {}
    /\ result = <<>>
    /\ determinate = FALSE
    /\ previous = [known |-> FALSE]
    /\ shared = [model |-> 0, solver |-> 0]
    /\ objects = <<>>
    /\ thread = no_threads

\* the result of the call before this one, kept when the solver had no choice in it
remembered == IF calls > 0 /\ determinate THEN [known |-> TRUE, result |-> result]
                                          ELSE [known |-> FALSE]

\* solve_schedule up to the Solve call (lines 15-113), for a request of at most
\* `limit` variables: the placeholder is appended to the request's own list, the
\* variables are created, the constraints added and the objective set
BuildModelWithin(limit) ==
    /\ pc = "idle"
    /\ calls < MaxCalls
    /\ (Len(members) + 1) * Len(shifts) * days_in_month <= limit
    /\ ~request_logging_raises(availability_type)
    /\ ~custom_raises(custom_constraints)
    /\ LET mem == Append(members, dummy_worker)
       IN  /\ members' = mem
           /\ model' = build_model(mem, shifts, entries_seen(availability_type, availability),
                                   days_in_month,
                                   merged_constraints(basic_constraints, custom_constraints))
    /\ pc' = "built"
    /\ calls' = calls + 1
    /\ status' = "NONE"
    /\ valuation' = {}
    /\ result' = <<>>
    /\ previous' = remembered
    /\ determinate' = FALSE
    /\ UNCHANGED <<request_vars, conc_vars, compared>>

BuildModel == BuildModelWithin(MaxVars)

\* lines 46-48 raise before the model is created: the call returns the error of
\* lines 136-138 and leaves the request, self.model and self.solver as they were
RaiseBeforeModel ==
    /\ pc = "idle"
    /\ calls < MaxCalls
    /\ request_logging_raises(availability_type)
    /\ result' = solver_error(IF availability_type = "NoneType" THEN "TypeError" ELSE "KeyError")
    /\ calls' = calls + 1
    /\ previous' = remembered
    /\ determinate' = TRUE
    /\ UNCHANGED <<members, request_vars, pc, model, status, valuation, conc_vars, compared>>

\* a custom rule (lines 292-294) or the workload term (line 709) raises after the
\* placeholder was appended: the call returns the error of lines 136-138
RaiseInModel ==
    /\ pc = "idle"
    /\ calls < MaxCalls
    /\ ~request_logging_raises(availability_type)
    /\ LET mem == Append(members, dummy_worker)
       IN  /\ custom_raises(custom_constraints) \/ abs_on_expression(mem, shifts)
           /\ members' = mem
           /\ model' = build_model(mem, shifts, entries_seen(availability_type, availability),
                                   days_in_month,
                                   merged_constraints(basic_constraints, custom_constraints))
    /\ result' = solver_error(IF custom_raises(custom_constraints) THEN "AttributeError"
                                                                   ELSE "NotImplementedError")
    /\ calls' = calls + 1
    /\ status' = "NONE"
    /\ valuation' = {}
    /\ previous' = remembered
    /\ determinate' = TRUE
    /\ UNCHANGED <<request_vars, pc, conc_vars, compared>>

\* the solver proves the model infeasible (lines 130-134)
SolveInfeasible ==
    /\ pc = "built"
    /\ feasible_valuations(model, Keys(members, shifts, days_in_month)) = {}
    /\ status' = "INFEASIBLE"
    /\ valuation' = {}
    /\ result' = no_solution("INFEASIBLE")
    /\ determinate' = TRUE
    /\ pc' = "idle"
    /\ UNCHANGED <<members, request_vars, calls, model, previous, conc_vars, compared>>

\* the solver returns a valuation it proved optimal (lines 115-129)
SolveOptimal ==
    /\ pc = "built"
    /\ LET feas == feasible_valuations(model, Keys(members, shifts, days_in_month))
           opt == optimal_valuations(feas, members, shifts,
                                     entries_seen(availability_type, availability))
       IN  /\ feas # {}
           /\ \E v \in opt, wall \in 1 .. MaxWallTime :
                /\ valuation' = v
                /\ result' = returned(v, "OPTIMAL", wall, members, shifts, days_in_month)
           /\ determinate' =
                (Cardinality({returned(w, "OPTIMAL", 0, members, shifts, days_in_month).assignments :
                                w \in opt}) = 1)
    /\ status' = "OPTIMAL"
    /\ pc' = "idle"
    /\ UNCHANGED <<members, request_vars, calls, model, previous, conc_vars, compared>>

\* the solver stops with a valuation that satisfies the constraints (lines 115-129)
SolveFeasible ==
    /\ pc = "built"
    /\ \E v \in feasible_valuations(model, Keys(members, shifts, days_in_month)),
          wall \in 1 .. MaxWallTime :
         /\ valuation' = v
         /\ result' = returned(v, "FEASIBLE", wall, members, shifts, days_in_month)
    /\ status' = "FEASIBLE"
    /\ determinate' = FALSE
    /\ pc' = "idle"
    /\ UNCHANGED <<members, request_vars, calls, model, previous, conc_vars, compared>>

Next ==
    \/ BuildModel
    \/ RaiseBeforeModel
    \/ RaiseInModel
    \/ SolveInfeasible
    \/ SolveOptimal
    \/ SolveFeasible

Spec == Init /\ [][Next]_vars

-----------------------------------------------------------------------------
(* Concurrent requests.  The endpoint hands every request to the one global     *)
(* ScheduleSolver object (line 802); the server of app.run serves each request  *)
(* on a thread of its own.  self.model and self.solver are fields of that one   *)
(* object: `shared` holds the two references, `objects` is the heap of the      *)
(* CpModel and CpSolver objects created so far, and thread[t] is the position   *)
(* of request t inside solve_schedule.  A model object records which request    *)
(* created it and which requests' variables, constraints and objective it       *)
(* holds; a solver object records which model it solved last.  Every request    *)
(* is taken to have a member, a shift, a day and settings that make each of the *)
(* five builders add a constraint.                                              *)

MaxThreads == 2

Threads == 1 .. MaxThreads

\* the constraint builders in the order solve_schedule calls them (lines 71-92)
builder_steps == <<"availability", "workers_per_shift", "max_shifts_per_month",
                   "max_consecutive_shifts", "custom">>

\* cp_model.CpModel() created by request t
CpModel(t) == [kind |-> "model", creator |-> t, variables |-> {}, constraints |-> {},
               objective |-> 0, solved |-> 0, solved_for |-> 0]

\* cp_model.CpSolver() created by request t
CpSolver(t) == [kind |-> "solver", creator |-> t, variables |-> {}, constraints |-> {},
                objective |-> 0, solved |-> 0, solved_for |-> 0]

InitConc ==
    /\ members = <<>>
    /\ shifts = <<>>
    /\ availability = <<>>
    /\ basic_constraints = <<>>
    /\ custom_constraints = <<>>
    /\ days_in_month = 1
    /\ pc = "idle"
    /\ calls = 0
    /\ model = {}
    /\ status = "NONE"
    /\ valuation = {}
    /\ result = <<>>
    /\ determinate = FALSE
    /\ previous = [known |-> FALSE]
    /\ availability_type = "list"
    /\ month = 1
    /\ year = FirstYear
    /\ compared = no_comparison
    /\ shared = [model |-> 0, solver |-> 0]
    /\ objects = <<>>
    /\ thread = [t \in Threads |-> [pc |-> "start", step |-> 1, result |-> <<>>]]

seq_vars == <<members, request_vars, pc, calls, model, status, valuation, result,
              determinate, previous, compared>>

\* line 53: self.model = cp_model.CpModel()
NewModel(t) ==
    /\ thread[t].pc = "start"
    /\ objects' = Append(objects, CpModel(t))
    /\ shared' = [shared EXCEPT !.model = Len(objects) + 1]
    /\ thread' = [thread EXCEPT ![t].pc = "new_solver"]
    /\ UNCHANGED seq_vars

\* line 54: self.solver = cp_model.CpSolver()
NewSolver(t) ==
    /\ thread[t].pc = "new_solver"
    /\ objects' = Append(objects, CpSolver(t))
    /\ shared' = [shared EXCEPT !.solver = Len(objects) + 1]
    /\ thread' = [thread EXCEPT ![t].pc = "new_vars"]
    /\ UNCHANGED seq_vars

\* lines 64-69: x[m, s, d] = self.model.NewBoolVar(...), in the model self.model
\* refers to at that moment
NewBoolVars(t) ==
    /\ thread[t].pc = "new_vars"
    /\ objects' = [objects EXCEPT ![shared.model].variables = @ \cup {t}]
    /\ thread' = [thread EXCEPT ![t].pc = "add"]
    /\ UNCHANGED <<shared, seq_vars>>

\* lines 71-92: one builder's self.model.Add(...) calls
AddConstraints(t) ==
    /\ thread[t].pc = "add"
    /\ objects' = [objects EXCEPT ![shared.model].constraints =
                                     @ \cup {<<t, builder_steps[thread[t].step]>>}]
    /\ thread' = [thread EXCEPT ![t].step = @ + 1,
                                ![t].pc = IF thread[t].step = Len(builder_steps)
                                          THEN "maximize" ELSE "add"]
    /\ UNCHANGED <<shared, seq_vars>>

\* line 655: self.model.Maximize(...)
Maximize(t) ==
    /\ thread[t].pc = "maximize"
    /\ objects' = [objects EXCEPT ![shared.model].objective = t]
    /\ thread' = [thread EXCEPT ![t].pc = "solve"]
    /\ UNCHANGED <<shared, seq_vars>>

\* line 115: status = self.solver.Solve(self.model)
Solve(t) ==
    /\ thread[t].pc = "solve"
    /\ objects' = [objects EXCEPT ![shared.solver].solved = shared.model,
                                  ![shared.solver].solved_for = t]
    /\ thread' = [thread EXCEPT ![t].pc = "extract"]
    /\ UNCHANGED <<shared, seq_vars>>

\* lines 120-138: self.solver.Value(x[...]) for every variable of the request; a
\* solver that has solved nothing raises, and the call returns an error
ExtractSolution(t) ==
    /\ thread[t].pc = "extract"
    /\ thread' = [thread EXCEPT
                    ![t].pc = "done",
                    ![t].result = IF objects[shared.solver].solved = 0
                                  THEN [error |-> "Solver error", solver |-> shared.solver,
                                        model |-> 0]
                                  ELSE [solver |-> shared.solver,
                                        model |-> objects[shared.solver].solved]]
    /\ UNCHANGED <<shared, objects, seq_vars>>

NextConc ==
    \E t \in Threads :
        \/ NewModel(t)
        \/ NewSolver(t)
        \/ NewBoolVars(t)
        \/ AddConstraints(t)
        \/ Maximize(t)
        \/ Solve(t)
        \/ ExtractSolution(t)

SpecConc == InitConc /\ [][NextConc]_vars

-----------------------------------------------------------------------------
(* The calendar: lines 36-37 compute the day count of the request's month as    *)
(* datetime(year, month + 1, 1) - datetime(year, month, 1).  SpecCalendar runs  *)
(* this step of solve_schedule for every month of the years FirstYear..LastYear *)
(* with the real lengths of the months.                                         *)

Months == 1 .. 12
Years == FirstYear .. LastYear

is_leap(y) == (y % 4 = 0 /\ y % 100 # 0) \/ y % 400 = 0

\* the length of month m of year y in the proleptic Gregorian calendar of datetime
days_in(y, m) ==
    IF m = 2 THEN (IF is_leap(y) THEN 29 ELSE 28)
    ELSE IF m \in {4, 6, 9, 11} THEN 30 ELSE 31

\* the datetime constructor raises ValueError outside these ranges
datetime_valid(y, m, d) == y \in 1 .. 9999 /\ m \in Months /\ d \in 1 .. days_in(y, m)

RECURSIVE days_before_month(_, _)
days_before_month(y, m) ==
    IF m <= 1 THEN 0 ELSE days_in(y, m - 1) + days_before_month(y, m - 1)

\* datetime(y, m, d).toordinal(): the day number counted from 0001-01-01
toordinal(y, m, d) ==
    (y - 1) * 365 + (y - 1) \div 4 - (y - 1) \div 100 + (y - 1) \div 400
      + days_before_month(y, m) + d

\* line 37 raises when one of its two dates does not exist
calendar_raises(y, m) == ~datetime_valid(y, m + 1, 1) \/ ~datetime_valid(y, m, 1)

\* line 37: (datetime(year, month + 1, 1) - datetime(year, month, 1)).days
resolve_days_in_month(y, m) == toordinal(y, m + 1, 1) - toordinal(y, m, 1)

InitCalendar ==
    /\ month \in Months
    /\ year \in Years
    /\ days_in_month = 0
    /\ members = members_of(1)
    /\ shifts = shifts_of(1)
    /\ availability = <<>>
    /\ availability_type = "list"
    /\ basic_constraints = <<>>
    /\ custom_constraints = <<>>
    /\ pc = "idle"
    /\ calls = 0
    /\ model = {}
    /\ status = "NONE"
    /\ valuation = {}
    /\ result = <<>>
    /\ determinate = FALSE
    /\ previous = [known |-> FALSE]
    /\ compared = no_comparison
    /\ shared = [model |-> 0, solver |-> 0]
    /\ objects = <<>>
    /\ thread = no_threads

\* lines 17-37: the call reads the request and computes the day count
ResolveCalendar ==
    /\ pc = "idle"
    /\ calls = 0
    /\ ~calendar_raises(year, month)
    /\ days_in_month' = resolve_days_in_month(year, month)
    /\ pc' = "resolved"
    /\ calls' = 1
    /\ UNCHANGED <<members, shifts, availability, availability_type, basic_constraints,
                   custom_constraints, month, year, model, status, valuation, result,
                   determinate, previous, conc_vars, compared>>

\* line 37 raises ValueError: the call returns the error of lines 136-138
CalendarRaises ==
    /\ pc = "idle"
    /\ calls = 0
    /\ calendar_raises(year, month)
    /\ result' = solver_error("ValueError")
    /\ calls' = 1
    /\ determinate' = TRUE
    /\ UNCHANGED <<members, request_vars, pc, model, status, valuation, previous,
                   conc_vars, compared>>

NextCalendar == ResolveCalendar \/ CalendarRaises

SpecCalendar == InitCalendar /\ [][NextCalendar]_vars

-----------------------------------------------------------------------------
(* Requests in which every real member is unavailable for every shift on every *)
(* day: SpecBlocked runs solve_schedule on them.                               *)

\* one 'unavailable' entry per (member, shift, day) of the request
blocked_availability(mem, shf, days) ==
    [i \in 1 .. (Len(mem) * Len(shf) * days) |->
        LET k == keys_in_order(mem, shf, days)[i]
        IN  [user_id |-> mem[k[1] + 1].id, shift_id |-> shf[k[2] + 1].id,
             date |-> DateStr(k[3]), status |-> "unavailable"]]

InitBlocked ==
    /\ \E nm \in 1 .. MaxMembers, ns \in 1 .. MaxShifts, nd \in 1 .. MaxDays :
         /\ (nm + 1) * ns * nd <= MaxVars
         /\ members = members_of(nm)
         /\ shifts = shifts_of(ns)
         /\ days_in_month = nd
         /\ availability = blocked_availability(members, shifts, nd)
         /\ basic_constraints \in basic_choices
         /\ custom_constraints \in SeqsUpTo(rule_choices(shifts), MaxRules)
         /\ Cardinality(DOMAIN basic_constraints) + Len(custom_constraints) <= MaxSettings
    /\ availability_type = "list"
    /\ month = 1
    /\ year = FirstYear
    /\ compared = no_comparison
    /\ pc = "idle"
    /\ calls = 0
    /\ model = {}
    /\ status = "NONE"
    /\ valuation = {}
    /\ result = <<>>
    /\ determinate = FALSE
    /\ previous = [known |-> FALSE]
    /\ shared = [model |-> 0, solver |-> 0]
    /\ objects = <<>>
    /\ thread = no_threads

NextBlocked ==
    \/ BuildModel
    \/ RaiseInModel
    \/ SolveInfeasible
    \/ SolveOptimal
    \/ SolveFeasible

SpecBlocked == InitBlocked /\ [][NextBlocked]_vars

-----------------------------------------------------------------------------
(* The weights of the objective: SpecWeights evaluates the maximised expression *)
(* for two combinations of term values that a valuation can produce.            *)

MaxFill == 11

\* the values the five terms can take together for a valuation of at most MaxFill
\* variables: the priority and the placeholder variables are among the filled ones,
\* the workload term is 0 and the shift-type term counts the real assignments or,
\* with fewer than two shifts, nothing
term_values ==
    { tv \in [total_assignments : 0 .. MaxFill, priority_bonus : 0 .. MaxFill,
              unassigned_penalty : 0 .. 1, workload_variance : {0},
              shift_type_variance : 0 .. MaxFill] :
        /\ tv.priority_bonus + tv.unassigned_penalty <= tv.total_assignments
        /\ tv.shift_type_variance \in {0, tv.total_assignments - tv.unassigned_penalty} }

objective_of(tv) ==
    weighted_objective(tv.total_assignments, tv.priority_bonus, tv.unassigned_penalty,
                       tv.workload_variance, tv.shift_type_variance)

InitWeights ==
    /\ compared = no_comparison
    /\ members = <<>>
    /\ shifts = <<>>
    /\ availability = <<>>
    /\ availability_type = "list"
    /\ basic_constraints = <<>>
    /\ custom_constraints = <<>>
    /\ month = 1
    /\ year = FirstYear
    /\ days_in_month = 1
    /\ pc = "idle"
    /\ calls = 0
    /\ model = {}
    /\ status = "NONE"
    /\ valuation = {}
    /\ result = <<>>
    /\ determinate = FALSE
    /\ previous = [known |-> FALSE]
    /\ shared = [model |-> 0, solver |-> 0]
    /\ objects = <<>>
    /\ thread = no_threads

\* the solver compares the objective values of two valuations of one model
CompareObjectives ==
    /\ compared = no_comparison
    /\ \E a \in term_values, b \in term_values :
         /\ a.shift_type_variance = 0 <=> b.shift_type_variance = 0
         /\ compared' = [a |-> a, b |-> b, value_a |-> objective_of(a),
                         value_b |-> objective_of(b)]
    /\ UNCHANGED <<members, request_vars, pc, calls, model, status, valuation, result,
                   determinate, previous, conc_vars>>

NextWeights == CompareObjectives

SpecWeights == InitWeights /\ [][NextWeights]_vars

-----------------------------------------------------------------------------
(* The worked example: three members, one shift 'Day', a 4-day month, no        *)
(* availability data, workers_per_shift 1, max_consecutive_days 2 and no custom *)
(* constraints.  SpecExample runs solve_schedule on it.                         *)

ExampleVars == 16

InitExample ==
    /\ members = members_of(3)
    /\ shifts = shifts_of(1)
    /\ days_in_month = 4
    /\ availability = <<>>
    /\ availability_type = "list"
    /\ basic_constraints = [workers_per_shift |-> 1, max_consecutive_days |-> 2]
    /\ custom_constraints = <<>>
    /\ month = 1
    /\ year = FirstYear
    /\ compared = no_comparison
    /\ pc = "idle"
    /\ calls = 0
    /\ model = {}
    /\ status = "NONE"
    /\ valuation = {}
    /\ result = <<>>
    /\ determinate = FALSE
    /\ previous = [known |-> FALSE]
    /\ shared = [model |-> 0, solver |-> 0]
    /\ objects = <<>>
    /\ thread = no_threads

BuildExample == BuildModelWithin(ExampleVars)

NextExample ==
    \/ BuildExample
    \/ RaiseInModel
    \/ SolveOptimal
    \/ SolveFeasible

SpecExample == InitExample /\ [][NextExample]_vars

-----------------------------------------------------------------------------
(* Requests with one consecutive_shift_restriction rule: SpecConsecutive runs   *)
(* solve_schedule on them.  The rule names its target shifts by id, by name,    *)
(* by keyword or not at all; the ids and names it gives may match no shift of   *)
(* the request.  The request allows one worker per shift, so no model is        *)
(* infeasible.                                                                  *)

consecutive_parameters ==
    { mc @@ ap @@ si :
        <<mc, ap, si>> \in
          ({<<>>} \cup {[max_consecutive |-> k] : k \in 0 .. MaxConsecutive})
          \X {<<>>, [applies_to_shifts |-> {"s2"}], [applies_to_shifts |-> {"s9"}]}
          \X ({<<>>} \cup
              { [shift_identifiers |-> nm @@ kw] :
                  <<nm, kw>> \in {<<>>, [names |-> {"Day"}], [names |-> {"night"}]}
                                 \X {<<>>, [keywords |-> {"NIGHT"}],
                                     [keywords |-> {"ay", "late"}]} }) }

consecutive_rules ==
    { [constraint_type |-> "consecutive_shift_restriction", status |-> "translated",
       parameters |-> p] : p \in consecutive_parameters }

InitConsecutive ==
    /\ \E nm \in 1 .. MaxMembers, ns \in 1 .. MaxShifts, nd \in 1 .. MaxDays :
         /\ (nm + 1) * ns * nd <= MaxVars
         /\ members = members_of(nm)
         /\ shifts = shifts_of(ns)
         /\ days_in_month = nd
    /\ availability = <<>>
    /\ availability_type = "list"
    /\ basic_constraints = [workers_per_shift |-> 1]
    /\ \E rule \in consecutive_rules : custom_constraints = <<rule>>
    /\ month = 1
    /\ year = FirstYear
    /\ compared = no_comparison
    /\ pc = "idle"
    /\ calls = 0
    /\ model = {}
    /\ status = "NONE"
    /\ valuation = {}
    /\ result = <<>>
    /\ determinate = FALSE
    /\ previous = [known |-> FALSE]
    /\ shared = [model |-> 0, solver |-> 0]
    /\ objects = <<>>
    /\ thread = no_threads

NextConsecutive ==
    \/ BuildModel
    \/ RaiseInModel
    \/ SolveOptimal
    \/ SolveFeasible

SpecConsecutive == InitConsecutive /\ [][NextConsecutive]_vars

-----------------------------------------------------------------------------
(* Requests with one shift_transition_restriction rule of two forbidden pairs:  *)
(* SpecTransitions runs solve_schedule on them.  A pair names shifts of the     *)
(* catalogue, which the request may or may not have, or the unknown id 's?'.    *)

transition_ids == {"s1", "s2", "s?"}

transition_pairs == [from_shift_id : transition_ids, to_shift_id : transition_ids]

two_pair_rules ==
    { [constraint_type |-> "shift_transition_restriction", status |-> "translated",
       parameters |-> [forbidden_transitions |-> <<p, q>>]] :
        <<p, q>> \in transition_pairs \X transition_pairs }

InitTransitions ==
    /\ \E nm \in 1 .. MaxMembers, ns \in 1 .. MaxShifts, nd \in 1 .. MaxDays :
         /\ (nm + 1) * ns * nd <= MaxVars
         /\ members = members_of(nm)
         /\ shifts = shifts_of(ns)
         /\ days_in_month = nd
    /\ availability = <<>>
    /\ availability_type = "list"
    /\ basic_constraints = [workers_per_shift |-> 1]
    /\ \E rule \in two_pair_rules : custom_constraints = <<rule>>
    /\ month = 1
    /\ year = FirstYear
    /\ compared = no_comparison
    /\ pc = "idle"
    /\ calls = 0
    /\ model = {}
    /\ status = "NONE"
    /\ valuation = {}
    /\ result = <<>>
    /\ determinate = FALSE
    /\ previous = [known |-> FALSE]
    /\ shared = [model |-> 0, solver |-> 0]
    /\ objects = <<>>
    /\ thread = no_threads

NextTransitions ==
    \/ BuildModel
    \/ RaiseInModel
    \/ SolveOptimal
    \/ SolveFeasible

SpecTransitions == InitTransitions /\ [][NextTransitions]_vars

-----------------------------------------------------------------------------
(* Requests with two custom rules, a malformed one followed by a rule that adds *)
(* hard constraints: SpecMalformed runs solve_schedule on them.  The malformed  *)
(* rule has null parameters, or a null ai_translation.                          *)

null_parameters_rules ==
    { [constraint_type |-> ty, status |-> "translated", parameters |-> None] :
        ty \in builder_types }

later_rules ==
    { [constraint_type |-> "workers_per_shift", status |-> "translated",
       parameters |-> [workers_required |-> 1, shift_names |-> {"Day"}]],
      [constraint_type |-> "shift_transition_restriction", status |-> "translated",
       parameters |-> [forbidden_transitions |->
                         <<[from_shift_id |-> "s1", to_shift_id |-> "s1"]>>]],
      [constraint_type |-> "consecutive_shift_restriction", status |-> "translated",
       parameters |-> [max_consecutive |-> 0, applies_to_shifts |-> {"s1"}]] }

InitMalformed ==
    /\ \E nm \in 1 .. MaxMembers, ns \in 1 .. MaxShifts, nd \in 1 .. MaxDays :
         /\ (nm + 1) * ns * nd <= MaxVars
         /\ members = members_of(nm)
         /\ shifts = shifts_of(ns)
         /\ days_in_month = nd
    /\ availability = <<>>
    /\ availability_type = "list"
    /\ basic_constraints = [workers_per_shift |-> 1]
    /\ \E bad \in null_parameters_rules \cup null_translation_rules, good \in later_rules :
         custom_constraints = <<bad, good>>
    /\ month = 1
    /\ year = FirstYear
    /\ compared = no_comparison
    /\ pc = "idle"
    /\ calls = 0
    /\ model = {}
    /\ status = "NONE"
    /\ valuation = {}
    /\ result = <<>>
    /\ determinate = FALSE
    /\ previous = [known |-> FALSE]
    /\ shared = [model |-> 0, solver |-> 0]
    /\ objects = <<>>
    /\ thread = no_threads

NextMalformed ==
    \/ BuildModel
    \/ RaiseInModel
    \/ SolveOptimal
    \/ SolveFeasible

SpecMalformed == InitMalformed /\ [][NextMalformed]_vars

-----------------------------------------------------------------------------
(* The fallback roster on months longer than a week.  SpecFallback runs         *)
(* solve_schedule on requests of up to LongMonth days whose solve ends FEASIBLE *)
(* with the valuation that assigns nobody, which satisfies every model without  *)
(* a custom coverage rule; lines 125-127 then return the fallback roster.  The  *)
(* other outcomes of the solver are those of Spec.                              *)

LongMonth == 9
FallbackMembers == 3
FallbackVars == 90

\* limits that the roster of a solver would have to respect
fallback_basic_choices ==
    {<<>>, [workers_per_shift |-> 0], [max_days_per_month |-> 1, max_consecutive_days |-> 1]}

InitFallback ==
    /\ \E nm \in 0 .. FallbackMembers, ns \in 1 .. MaxShifts, nd \in 1 .. LongMonth :
         /\ members = members_of(nm)
         /\ shifts = shifts_of(ns)
         /\ days_in_month = nd
         /\ availability \in {<<>>, blocked_availability(members, shifts, nd)}
    /\ basic_constraints \in fallback_basic_choices
    /\ custom_constraints = <<>>
    /\ availability_type = "list"
    /\ month = 1
    /\ year = FirstYear
    /\ compared = no_comparison
    /\ pc = "idle"
    /\ calls = 0
    /\ model = {}
    /\ status = "NONE"
    /\ valuation = {}
    /\ result = <<>>
    /\ determinate = FALSE
    /\ previous = [known |-> FALSE]
    /\ shared = [model |-> 0, solver |-> 0]
    /\ objects = <<>>
    /\ thread = no_threads

BuildLongMonth == BuildModelWithin(FallbackVars)

\* the solver stops with the valuation in which every variable is 0 (lines 115-129)
SolveFeasibleNobody ==
    /\ pc = "built"
    /\ \A c \in model : satisfies({}, c)
    /\ \E wall \in 1 .. MaxWallTime :
         result' = returned({}, "FEASIBLE", wall, members, shifts, days_in_month)
    /\ valuation' = {}
    /\ status' = "FEASIBLE"
    /\ determinate' = FALSE
    /\ pc' = "idle"
    /\ UNCHANGED <<members, request_vars, calls, model, previous, conc_vars, compared>>

NextFallback ==
    \/ BuildLongMonth
    \/ RaiseInModel
    \/ SolveFeasibleNobody

SpecFallback == InitFallback /\ [][NextFallback]_vars

-----------------------------------------------------------------------------
(* Vocabulary of the properties. *)

Returned == pc = "idle" /\ calls > 0
Roster == Returned /\ "assignments" \in DOMAIN result
SolverRoster == Roster /\ result.solver_status \in {"OPTIMAL", "FEASIBLE"}
SolverSuccess == Returned /\ status \in {"OPTIMAL", "FEASIBLE"}

\* the members the valuation assigns to shift index s on day index d
AssignedTo(s, d) == {k \in valuation : k[2] = s /\ k[3] = d}

\* the roster holds an assignment of user u to shift id sh on day number day
InRoster(u, sh, day) ==
    \E i \in DOMAIN result.assignments :
        result.assignments[i] = [user_id |-> u, shift_id |-> sh, date |-> day]

RosterUsers == {result.assignments[i].user_id : i \in DOMAIN result.assignments}

\* the request came with at least one member of its own
HasRealMember == Len(members) >= 1 /\ members[1].id # "unassigned"

\* entry j of the availability list marks its triple unavailable
Unavailable(j) == availability[j].status = "unavailable"

\* entry j is the first entry of the list for its (user_id, shift_id, date)
FirstForTriple(j) ==
    \A i \in 1 .. (j - 1) :
        \/ availability[i].user_id # availability[j].user_id
        \/ availability[i].shift_id # availability[j].shift_id
        \/ availability[i].date # availability[j].date

Matches(a, j) ==
    /\ a.user_id = availability[j].user_id
    /\ a.shift_id = availability[j].shift_id
    /\ a.date = availability[j].date

-----------------------------------------------------------------------------
(* C1, as stated: in every result that carries an assignment list (OPTIMAL,   *)
(* FEASIBLE or FALLBACK) no assignment matches an availability entry whose    *)
(* status is 'unavailable'.                                                   *)
C1_AsStated ==
    Roster =>
        \A i \in DOMAIN result.assignments, j \in DOMAIN availability :
            ~(Unavailable(j) /\ Matches(result.assignments[i], j))

(* C1, amended: in every roster returned with status OPTIMAL or FEASIBLE no   *)
(* assignment matches an 'unavailable' entry that is the first entry of the   *)
(* availability list for its (user_id, shift_id, date).                       *)
C1_UnavailableNeverAssigned ==
    SolverRoster =>
        \A i \in DOMAIN result.assignments, j \in DOMAIN availability :
            ~(Unavailable(j) /\ FirstForTriple(j) /\ Matches(result.assignments[i], j))

\* a solver roster in which a member who is unavailable for one slot works another
C1_Witness ==
    /\ SolverRoster
    /\ result.solver_status = "OPTIMAL"
    /\ \E j \in DOMAIN availability :
         /\ Unavailable(j) /\ FirstForTriple(j)
         /\ availability[j].user_id \in RosterUsers

(* C2: in every valuation the solver returns, each (shift, day) has at most   *)
(* the basic workers_per_shift value of members, placeholder included; the    *)
(* value is 2 when the request gives none.                                    *)
C2_WorkersPerShiftBound ==
    SolverSuccess =>
        \A s \in Range(Len(shifts)), d \in Range(days_in_month) :
            Cardinality(AssignedTo(s, d)) <=
                (IF "workers_per_shift" \in DOMAIN basic_constraints
                 THEN basic_constraints.workers_per_shift ELSE 2)

\* a slot filled to the default bound of 2 by a real member and the placeholder
C2_Witness ==
    /\ SolverSuccess
    /\ "workers_per_shift" \notin DOMAIN basic_constraints
    /\ \E s \in Range(Len(shifts)), d \in Range(days_in_month) :
         /\ Cardinality(AssignedTo(s, d)) = 2
         /\ <<Len(members) - 1, s, d>> \in valuation
         /\ <<0, s, d>> \in valuation
         /\ members[1].id # "unassigned"

\* the active custom rules of type workers_per_shift
ActiveWorkersRules ==
    {i \in DOMAIN custom_constraints :
        /\ custom_constraints[i].status = "translated"
        /\ ~rule_raises(custom_constraints[i])
        /\ rule_type(custom_constraints[i]) = "workers_per_shift"}

\* the shift indices rule i names
NamedShifts(i) ==
    {s \in Range(Len(shifts)) :
        shifts[s + 1].name \in rule_parameters(custom_constraints[i]).shift_names}

(* C3: an active workers_per_shift rule naming shift S with workers_required  *)
(* R overrides the global value for S: every day exactly R members are on S,  *)
(* and the model stays feasible for S also when R exceeds the global value.   *)
(* Stated for a request with a real member whose only other setting is a      *)
(* global value of at least 1, with enough members (placeholder included) to  *)
(* put R on a shift, whenever the solver was run.                              *)
C3_CustomOverridesGlobal ==
    (/\ Returned
     /\ HasRealMember
     /\ status # "NONE"
     /\ availability = <<>>
     /\ DOMAIN basic_constraints \subseteq {"workers_per_shift"}
     /\ \A f \in DOMAIN basic_constraints : basic_constraints[f] >= 1
     /\ Len(custom_constraints) = 1)
    => \A i \in ActiveWorkersRules :
          (NamedShifts(i) # {} /\ rule_parameters(custom_constraints[i]).workers_required <= Len(members))
          => /\ status \in {"OPTIMAL", "FEASIBLE"}
             /\ \A s \in NamedShifts(i), d \in Range(days_in_month) :
                   Cardinality(AssignedTo(s, d)) = rule_parameters(custom_constraints[i]).workers_required

(* C4: with K = max_consecutive_days (30 when the request gives none), in     *)
(* every valuation the solver returns, every member has at most K assignments *)
(* over all shifts in each window of K+1 days d..d+K inside the month, and so *)
(* no member works on K+1 consecutive days.                                   *)
C4_MaxConsecutive ==
    SolverSuccess =>
        LET K == IF "max_consecutive_days" \in DOMAIN basic_constraints
                 THEN basic_constraints.max_consecutive_days ELSE 30
        IN  \A m \in Range(Len(members)), d \in Range(days_in_month) :
               (d + K <= days_in_month - 1) =>
                  /\ Cardinality({k \in valuation : k[1] = m /\ k[3] \in d .. (d + K)}) <= K
                  /\ \E day \in d .. (d + K) : \A s \in Range(Len(shifts)) : <<m, s, day>> \notin valuation

\* K = 1 in a 3-day month: a real member works day 1 and day 3, which K allows
C4_Witness ==
    /\ SolverSuccess
    /\ "max_consecutive_days" \in DOMAIN basic_constraints
    /\ basic_constraints.max_consecutive_days = 1
    /\ days_in_month = 3
    /\ members[1].id # "unassigned"
    /\ \E s \in Range(Len(shifts)) : <<0, s, 0>> \in valuation
    /\ \E s \in Range(Len(shifts)) : <<0, s, 2>> \in valuation

(* C5: in every roster returned with status OPTIMAL or FEASIBLE each real     *)
(* member has at most max_days_per_month assignments in all (20 when the      *)
(* request gives none).                                                       *)
C5_MaxPerMonth ==
    SolverRoster =>
        \A u \in RosterUsers :
            Cardinality({i \in DOMAIN result.assignments : result.assignments[i].user_id = u})
              <= (IF "max_days_per_month" \in DOMAIN basic_constraints
                  THEN basic_constraints.max_days_per_month ELSE 20)

\* max_days_per_month = 1 in a request with several slots: a member holds its one
\* assignment while another slot of the roster goes to someone else or to nobody
C5_Witness ==
    /\ SolverRoster
    /\ "max_days_per_month" \in DOMAIN basic_constraints
    /\ basic_constraints.max_days_per_month = 1
    /\ Len(shifts) * days_in_month >= 2
    /\ "m1" \in RosterUsers
    /\ result.solver_status = "OPTIMAL"

\* the forbidden pairs of the active shift_transition_restriction rules
ForbiddenPairs ==
    UNION { {<<rule_parameters(custom_constraints[i]).forbidden_transitions[t].from_shift_id,
               rule_parameters(custom_constraints[i]).forbidden_transitions[t].to_shift_id>> :
                t \in DOMAIN rule_parameters(custom_constraints[i]).forbidden_transitions} :
            i \in {j \in DOMAIN custom_constraints :
                     /\ custom_constraints[j].status = "translated"
                     /\ ~rule_raises(custom_constraints[j])
                     /\ rule_type(custom_constraints[j]) = "shift_transition_restriction"} }

ShiftIds == {shifts[i].id : i \in DOMAIN shifts}

(* C6: for every forbidden pair (A, B) of an active shift_transition_         *)
(* restriction rule whose ids are both shifts of the request, no roster       *)
(* returned with status OPTIMAL or FEASIBLE has a member on A on a day and on *)
(* B on the next day (A = B included).                                        *)
C6_NoForbiddenTransition ==
    SolverRoster =>
        \A p \in ForbiddenPairs :
            (p[1] \in ShiftIds /\ p[2] \in ShiftIds) =>
                \A u \in RosterUsers, day \in 1 .. (days_in_month - 1) :
                    ~(InRoster(u, p[1], day) /\ InRoster(u, p[2], day + 1))

\* the rule forbids s1 -> s2, and a member of the roster works s2 then s1, which it allows
C6_Witness ==
    /\ SolverRoster
    /\ <<"s1", "s2">> \in ForbiddenPairs
    /\ \E u \in RosterUsers : InRoster(u, "s2", 1) /\ InRoster(u, "s1", 2) /\ InRoster(u, "s1", 1)

\* the valuation gives no variable of a real member the value 1
NoRealAssignment == \A k \in valuation : members[k[1] + 1].id = "unassigned"

(* C7: whenever the solver reports OPTIMAL or FEASIBLE and no real member is  *)
(* assigned, the call returns status FALLBACK with solve_time 0, and a        *)
(* non-empty assignment list when the request has a real member and a shift.  *)
C7_FallbackResult ==
    (SolverSuccess /\ NoRealAssignment) =>
        /\ "assignments" \in DOMAIN result
        /\ result.solver_status = "FALLBACK"
        /\ result.solve_time = 0
        /\ ((Len(shifts) >= 1 /\ \E i \in DOMAIN members : members[i].id # "unassigned")
              => Len(result.assignments) >= 1)

\* the optimal valuation leaves every slot to the placeholder, and the fallback roster is returned
C7_Witness ==
    /\ SolverSuccess
    /\ status = "OPTIMAL"
    /\ NoRealAssignment
    /\ valuation # {}
    /\ Len(result.assignments) >= 2

AssignmentSet(res) == {res.assignments[i] : i \in DOMAIN res.assignments}

(* C9: solving the same request object twice with a solver that picks an      *)
(* optimal valuation deterministically yields the same set of assignments.    *)
(* Stated where the solver has no choice: both calls ended OPTIMAL and every  *)
(* optimal valuation of either model gives the roster that call returned; the *)
(* request comes with at least one member of its own.                         *)
C9_Idempotent ==
    (/\ Returned /\ calls >= 2
     /\ HasRealMember
     /\ determinate /\ previous.known
     /\ "assignments" \in DOMAIN result /\ "assignments" \in DOMAIN previous.result)
    => AssignmentSet(result) = AssignmentSet(previous.result)

\* the requests whose constraints model object o holds
ConstraintOwners(o) == {c[1] : c \in objects[o].constraints}

(* C10: when solve_schedule calls run concurrently in one server process,     *)
(* every model object holds only the variables, constraints and objective of  *)
(* the call that created it, and every call that has extracted its result     *)
(* read it from the solver it created, which had solved the model it created. *)
C10_RequestsIndependent ==
    /\ \A o \in DOMAIN objects :
         /\ objects[o].variables \subseteq {objects[o].creator}
         /\ ConstraintOwners(o) \subseteq {objects[o].creator}
         /\ objects[o].objective \in {0, objects[o].creator}
    /\ \A t \in Threads :
         thread[t].pc = "done" =>
            /\ "error" \notin DOMAIN thread[t].result
            /\ objects[thread[t].result.solver].creator = t
            /\ objects[thread[t].result.model].creator = t

-----------------------------------------------------------------------------
(* C11: for every month in 1..12 and every year the calendar step yields the  *)
(* number of days of that month, between 28 and 31, and the call goes on to   *)
(* build the model: it does not end in an error.                              *)
C11_CalendarResolves ==
    calls > 0 =>
        /\ "error" \notin DOMAIN result
        /\ pc = "resolved"
        /\ days_in_month = days_in(year, month)
        /\ days_in_month \in 28 .. 31

\* the merged constraints of the request of the current state
Merged == merged_constraints(basic_constraints, custom_constraints)

\* every value the request sets in basic_constraints is at least 1
BasicAtLeastOne == \A f \in DOMAIN basic_constraints : basic_constraints[f] >= 1

(* C12: the placeholder keeps the model feasible whatever the availability    *)
(* data.  Stated for requests in which every real member is unavailable for   *)
(* every shift and day, every basic value is at least 1 and every active      *)
(* workers_per_shift rule requires exactly 1 worker: whenever the solver was  *)
(* run, it did not report INFEASIBLE and the call returned no error.          *)
C12_PlaceholderKeepsFeasible ==
    (/\ Returned
     /\ HasRealMember
     /\ status # "NONE"
     /\ BasicAtLeastOne
     /\ \A i \in ActiveWorkersRules :
           rule_parameters(custom_constraints[i]).workers_required = 1)
    => /\ status \in {"OPTIMAL", "FEASIBLE"}
       /\ "error" \notin DOMAIN result

\* the model of the current state with the max_days_per_month bound lifted
ModelWithoutMonthBound ==
    build_model(members, shifts, entries_seen(availability_type, availability), days_in_month,
                [Merged EXCEPT !.max_days_per_month = Len(shifts) * days_in_month])

(* C13: the max_days_per_month bound is imposed on the real members only: a   *)
(* valuation that meets every other constraint of the model and gives no real *)
(* member more than max_days_per_month slots is accepted by the model,        *)
(* however many slots it gives the placeholder.  Stated for the first call on *)
(* a request with a real member whose basic values are at least 1.            *)
C13_PlaceholderNotBounded ==
    (pc = "built" /\ calls = 1 /\ HasRealMember /\ BasicAtLeastOne) =>
        \A v \in feasible_valuations(ModelWithoutMonthBound,
                                     Keys(members, shifts, days_in_month)) :
            (\A m \in Range(Len(members) - 1) : total_of(v, m) <= Merged.max_days_per_month)
              => \A c \in model : satisfies(v, c)

(* C14: the fill term dominates the objective: of two valuations of a model,  *)
(* the one with more 1-valued variables has the larger objective value,       *)
(* whatever the priority, unassigned, workload and shift-type terms are.      *)
C14_FillDominates ==
    (compared # no_comparison /\ compared.a.total_assignments > compared.b.total_assignments)
      => compared.value_a > compared.value_b

\* the days of the month on which the roster has user u on some shift
DaysWorked(u) ==
    {day \in 1 .. days_in_month : \E s \in DOMAIN shifts : InRoster(u, shifts[s].id, day)}

(* C15: for the worked example (members A, B, C, one shift, 4 days,           *)
(* workers_per_shift 1, max_consecutive_days 2) the call, when the solver     *)
(* proves optimality, returns a roster that has exactly one of A, B, C on     *)
(* the shift on each of the 4 days, and no member on 3 consecutive days.      *)
C15_ExampleRoster ==
    (Returned /\ calls = 1 /\ status # "FEASIBLE") =>
        /\ "assignments" \in DOMAIN result
        /\ \A day \in 1 .. days_in_month :
              Cardinality({i \in DOMAIN result.assignments :
                              result.assignments[i].date = day}) = 1
        /\ RosterUsers \subseteq {members[i].id : i \in 1 .. 3}
        /\ \A u \in RosterUsers, day \in 1 .. (days_in_month - 2) :
              ~({day, day + 1, day + 2} \subseteq DaysWorked(u))

(* C16: when the solver reports a status other than OPTIMAL or FEASIBLE the   *)
(* call returns a result that holds only an error string naming that status;  *)
(* every returned result is either a roster (assignments, solver_status,      *)
(* solve_time) or an error, never both.                                       *)
C16_ErrorOrRoster ==
    Returned =>
        /\ \/ DOMAIN result = {"error"}
           \/ DOMAIN result = {"assignments", "solver_status", "solve_time"}
        /\ status \notin {"OPTIMAL", "FEASIBLE", "NONE"}
             => (DOMAIN result = {"error"} /\ result.error[2] = status)

\* the solver found the model of a request with a real member infeasible
C16_Witness ==
    /\ Returned
    /\ HasRealMember
    /\ status = "INFEASIBLE"
    /\ result.error[2] = "INFEASIBLE"

\* the rules of the request whose status is 'translated'
TranslatedRules == SelectSeq(custom_constraints, LAMBDA c : c.status = "translated")

(* C17: a custom rule whose status is not 'translated' is skipped entirely,   *)
(* whatever its fields hold: the constraints of the built model are those of  *)
(* the request without such rules, and a call ends in the error of a rule     *)
(* only if it would also do so without them.  Stated for requests with a real *)
(* member.                                                                    *)
C17_InactiveRuleSkipped ==
    HasRealMember =>
    /\ pc = "built" =>
          model = build_model(members, shifts, entries_seen(availability_type, availability),
                              days_in_month,
                              merged_constraints(basic_constraints, TranslatedRules))
    /\ (Returned /\ result = solver_error("AttributeError")) => custom_raises(TranslatedRules)

(* C18: when the availability value of the request is not a list, the call    *)
(* goes on as if no availability data had been given and returns a roster,    *)
(* not an error.  Stated for requests with a real member and without custom   *)
(* rules whose workload term is not applied to expressions.                   *)
C18_NonListAvailabilityIgnored ==
    (/\ Returned
     /\ HasRealMember
     /\ availability_type # "list"
     /\ custom_constraints = <<>>
     /\ ~abs_on_expression(members, shifts))
    => "assignments" \in DOMAIN result

\* the rule types that add hard constraints
HardTypes == {"consecutive_shift_restriction", "workers_per_shift",
              "shift_transition_restriction"}

\* rule c is active, its fields can be read, and its type is a soft or unknown one
SoftActive(c) == c.status = "translated" /\ ~rule_raises(c) /\ rule_type(c) \notin HardTypes

\* the rules of the request without the active soft and unknown ones
WithoutSoftRules == SelectSeq(custom_constraints, LAMBDA c : ~SoftActive(c))

RealOnes == {k \in valuation : members[k[1] + 1].id # "unassigned"}

(* C20: on a successful solve the extracted assignment list corresponds       *)
(* one-to-one to the 1-valued variables of real members: every such variable  *)
(* x[m, s, d] yields the assignment (members[m].id, shifts[s].id, day d + 1), *)
(* every assignment comes from such a variable, and there are as many         *)
(* assignments as such variables.                                             *)
C20_ExtractionOneToOne ==
    SolverRoster =>
        /\ Len(result.assignments) = Cardinality(RealOnes)
        /\ \A k \in RealOnes : InRoster(members[k[1] + 1].id, shifts[k[2] + 1].id, k[3] + 1)
        /\ \A i \in DOMAIN result.assignments :
              \E k \in RealOnes :
                 result.assignments[i] = [user_id |-> members[k[1] + 1].id,
                                          shift_id |-> shifts[k[2] + 1].id,
                                          date |-> k[3] + 1]

\* a roster of two assignments extracted from a valuation that also uses the placeholder
C20_Witness ==
    /\ SolverRoster
    /\ Len(result.assignments) = 2
    /\ \E k \in valuation : members[k[1] + 1].id = "unassigned"
    /\ \E k \in valuation : k[3] = 1

\* the call returned the roster of _solve_with_fallback
FallbackRoster == Roster /\ result.solver_status = "FALLBACK"

\* the (day, shift) pairs of the first week, counted from 0 in day-major order
FirstWeekPairs == Range(Min({7, days_in_month}) * Len(shifts))

\* the roster that gives the k-th pair to the (k mod n)-th entry of the list `among`
RoundRobin(among) ==
    [i \in 1 .. Cardinality(FirstWeekPairs) |->
        [user_id  |-> among[((i - 1) % Len(among)) + 1].id,
         shift_id |-> shifts[((i - 1) % Len(shifts)) + 1].id,
         date     |-> ((i - 1) \div Len(shifts)) + 1]]

\* the members that are not a placeholder, in list order
RealMembers == SelectSeq(members, LAMBDA m : m.id # "unassigned")

RealTotals ==
    LET real == SelectSeq([i \in DOMAIN members |-> i], LAMBDA i : members[i].id # "unassigned")
    IN  [j \in DOMAIN real |-> Cardinality({k \in valuation : k[1] + 1 = real[j]})]

\* the penalty of section 4.8 for one pair of totals
StatedPairPenalty(a, b) ==
    LET gap == IF a >= b THEN a - b ELSE b - a
    IN  IF gap > 1 THEN (gap - 1) * (gap - 1) * 100 ELSE gap * 2

\* the sum of the list of numbers f
RECURSIVE SumOf(_)
SumOf(f) == IF Len(f) = 0 THEN 0 ELSE f[1] + SumOf(Tail(f))

\* the penalty of section 4.8 for the valuation: every unordered pair of real members
StatedWorkloadPenalty ==
    IF Len(RealTotals) < 2 THEN 0
    ELSE SumOf([p \in 1 .. (Len(RealTotals) * Len(RealTotals)) |->
                  LET i == ((p - 1) \div Len(RealTotals)) + 1
                      j == ((p - 1) % Len(RealTotals)) + 1
                  IN  IF i < j THEN StatedPairPenalty(RealTotals[i], RealTotals[j]) ELSE 0])

(* C22: the workload-balance term of the objective under which a valuation   *)
(* was chosen equals, for that valuation, the sum over every unordered pair   *)
(* of real members of (|diff|-1)^2 * 100 when |diff| > 1 and of |diff| * 2    *)
(* otherwise, diff being the difference of the two members' totals, and 0     *)
(* with fewer than two real members; it is weighted -50 in the objective.     *)
C22_WorkloadPenalty ==
    (SolverSuccess /\ HasRealMember) =>
        /\ calculate_workload_variance(valuation, members, shifts) = StatedWorkloadPenalty
        /\ \A w \in 0 .. 2 :
              weighted_objective(0, 0, 0, w, 0) = (-50) * w

\* the active consecutive_shift_restriction rules of the request
ConsecutiveRules ==
    { i \in DOMAIN custom_constraints :
        /\ ~rule_raises(custom_constraints[i])
        /\ custom_constraints[i].status = "translated"
        /\ rule_type(custom_constraints[i]) = "consecutive_shift_restriction"
        /\ rule_parameters(custom_constraints[i]) # None }

\* the target shifts of rule i, as indices from 0: by id or exact name when the rule
\* gives ids or names, by keyword otherwise
StatedTargets(i) ==
    LET p == rule_parameters(custom_constraints[i])
        ids == Get(p, "applies_to_shifts", {})
        names == Get(Get(p, "shift_identifiers", <<>>), "names", {})
        keywords == Get(Get(p, "shift_identifiers", <<>>), "keywords", {})
    IN  IF ids # {} \/ names # {}
        THEN {s \in Range(Len(shifts)) : shifts[s + 1].id \in ids \/ shifts[s + 1].name \in names}
        ELSE {s \in Range(Len(shifts)) :
                \E kw \in keywords : is_substring(lower(kw), lower(shifts[s + 1].name))}

\* the rules of the request without rule i
WithoutRule(i) ==
    SubSeq(custom_constraints, 1, i - 1) \o SubSeq(custom_constraints, i + 1, Len(custom_constraints))

\* the model solve_schedule builds for the request without rule i
ModelWithoutRule(i) ==
    build_model(members, shifts, entries_seen(availability_type, availability), days_in_month,
                merged_constraints(basic_constraints, WithoutRule(i)))

\* the assignments the valuation gives member index m on the shifts S in days d .. d + K
InWindow(m, S, d, K) == {k \in valuation : k[1] = m /\ k[2] \in S /\ k[3] \in d .. (d + K)}

(* C23: an active consecutive_shift_restriction rule takes as targets the      *)
(* shifts whose id is in applies_to_shifts or whose name is in                 *)
(* shift_identifiers.names, and matches keywords against the lower-cased name  *)
(* only when the rule gives neither ids nor names.  With no target the model   *)
(* is the model of the request without the rule and the call does not end in   *)
(* the error of a rule; otherwise the rule constrains target shifts only, and  *)
(* in every valuation the solver returns every member, the placeholder         *)
(* included, has at most K = max_consecutive assignments to target shifts in   *)
(* every window of K + 1 consecutive days.                                     *)
C23_ConsecutiveRestriction ==
    \A i \in ConsecutiveRules :
        LET K == Get(rule_parameters(custom_constraints[i]), "max_consecutive", 0)
        IN  /\ (model # {} /\ StatedTargets(i) = {}) =>
                  /\ model = ModelWithoutRule(i)
                  /\ Returned => result # solver_error("AttributeError")
            /\ (model # {} /\ StatedTargets(i) # {}) =>
                  \A c \in model \ ModelWithoutRule(i) :
                      \A k \in c.sum : k[2] \in StatedTargets(i)
            /\ (SolverSuccess /\ StatedTargets(i) # {}) =>
                  \A m \in Range(Len(members)), d \in Range(days_in_month - K) :
                      Cardinality(InWindow(m, StatedTargets(i), d, K)) <= K

\* a roster for two shifts and two days under a rule that allows one Night shift in
\* any two days, found by the keyword 'NIGHT': the member works one of the two nights
\* and both days
C23_Witness ==
    /\ SolverRoster
    /\ ConsecutiveRules # {}
    /\ days_in_month = 2
    /\ Len(shifts) = 2
    /\ \E i \in ConsecutiveRules :
          /\ StatedTargets(i) = {1}
          /\ Get(rule_parameters(custom_constraints[i]), "max_consecutive", 0) = 1
          /\ "applies_to_shifts" \notin DOMAIN rule_parameters(custom_constraints[i])
    /\ InRoster("m1", "s1", 1) /\ InRoster("m1", "s1", 2)
    /\ InRoster("m1", "s2", 1) /\ ~InRoster("m1", "s2", 2)

\* a rule whose ids and names match no shift while its keyword would: nothing is added
C23_WitnessNoTarget ==
    /\ SolverRoster
    /\ \E i \in ConsecutiveRules :
          /\ StatedTargets(i) = {}
          /\ Get(rule_parameters(custom_constraints[i]), "applies_to_shifts", {}) = {"s9"}
          /\ "NIGHT" \in Get(Get(rule_parameters(custom_constraints[i]), "shift_identifiers", <<>>),
                             "keywords", {})
    /\ Len(shifts) = 2
    /\ InRoster("m1", "s2", 1) /\ InRoster("m1", "s2", 2)

\* the active shift_transition_restriction rules of the request
TransitionRules ==
    { i \in DOMAIN custom_constraints :
        /\ ~rule_raises(custom_constraints[i])
        /\ custom_constraints[i].status = "translated"
        /\ rule_type(custom_constraints[i]) = "shift_transition_restriction"
        /\ rule_parameters(custom_constraints[i]) # None }

\* the forbidden pairs of rule i
PairsOf(i) == Get(rule_parameters(custom_constraints[i]), "forbidden_transitions", <<>>)

\* both ids of the pair are ids of shifts of the request
Resolves(p) == p.from_shift_id \in ShiftIds /\ p.to_shift_id \in ShiftIds

\* the index, from 0, of the shift of the request with the given id
IndexOfShift(id) == (CHOOSE s \in DOMAIN shifts : shifts[s].id = id) - 1

(* C24: in an active shift_transition_restriction rule a forbidden pair whose  *)
(* from_shift_id or to_shift_id is no shift of the request is skipped: every   *)
(* constraint the rule adds to the model is that of a pair whose ids resolve,  *)
(* a member on its from-shift on one day and its to-shift on the next, and the *)
(* call does not end in the error of a rule; every pair of the same rule whose *)
(* ids resolve is enforced in every valuation the solver returns.              *)
C24_UnresolvedPairSkipped ==
    \A i \in TransitionRules :
        /\ model # {} =>
              \A c \in model \ ModelWithoutRule(i) :
                  \E t \in DOMAIN PairsOf(i), m \in Range(Len(members)), d \in Range(days_in_month - 1) :
                      /\ Resolves(PairsOf(i)[t])
                      /\ c = Con({<<m, IndexOfShift(PairsOf(i)[t].from_shift_id), d>>,
                                  <<m, IndexOfShift(PairsOf(i)[t].to_shift_id), d + 1>>}, "le", 1)
        /\ (Returned /\ \E t \in DOMAIN PairsOf(i) : ~Resolves(PairsOf(i)[t]))
              => result # solver_error("AttributeError")
        /\ SolverSuccess =>
              \A t \in DOMAIN PairsOf(i) :
                  Resolves(PairsOf(i)[t]) =>
                      \A m \in Range(Len(members)), d \in Range(days_in_month - 1) :
                          ~(/\ <<m, IndexOfShift(PairsOf(i)[t].from_shift_id), d>> \in valuation
                            /\ <<m, IndexOfShift(PairsOf(i)[t].to_shift_id), d + 1>> \in valuation)

\* a roster under a rule whose first pair names the unknown shift 's?' and whose second
\* pair forbids s2 -> s1: the member works s1 on both days and s2 on the second only
C24_Witness ==
    /\ SolverRoster
    /\ \E i \in TransitionRules :
          /\ Len(PairsOf(i)) = 2
          /\ PairsOf(i)[1] = [from_shift_id |-> "s?", to_shift_id |-> "s1"]
          /\ PairsOf(i)[2] = [from_shift_id |-> "s2", to_shift_id |-> "s1"]
    /\ days_in_month = 2
    /\ InRoster("m1", "s1", 1) /\ InRoster("m1", "s1", 2) /\ InRoster("m1", "s2", 2)
    /\ ~InRoster("m1", "s2", 1)

\* the entries of custom_constraints whose processing fails: a field of the entry
\* cannot be read, or the entry is active and its builder cannot read the parameters
MalformedEntries ==
    { i \in DOMAIN custom_constraints :
        \/ rule_raises(custom_constraints[i])
        \/ /\ Get(custom_constraints[i], "status", "") = "translated"
           /\ builder_raises(rule_type(custom_constraints[i]),
                             rule_parameters(custom_constraints[i])) }

(* C25: when the processing of an entry of custom_constraints fails, the call *)
(* does not return the error of that failure, and the model holds the         *)
(* constraints of every other entry, the later ones included: it is the model *)
(* of the request without the failing entry.                                  *)
C25_RuleFailuresAbsorbed ==
    \A i \in MalformedEntries :
        /\ Returned => result # solver_error("AttributeError")
        /\ model # {} => model = ModelWithoutRule(i)

\* the list of n placeholder entries
Placeholders(n) == [i \in 1 .. n |-> dummy_worker]

Moved(k, j) == (valuation \ {k}) \cup {<<j, k[2], k[3]>>}

\* an assignment of the last entry of the list could go to an earlier placeholder entry
\* instead, the model allowing it
CouldMoveToEarlierPlaceholder ==
    \E k \in valuation, j \in Range(Len(members) - 1) :
        /\ k[1] = Len(members) - 1
        /\ members[j + 1].id = "unassigned"
        /\ <<j, k[2], k[3]>> \notin valuation
        /\ \A c \in model : satisfies(Moved(k, j), c)

=============================================================================
